---- MODULE Spec2Model ----
(***************************************************************************)
(* Model of ret::rendering::VoxelCarving (src/rendering/voxel_carving.cpp) *)
(* : the voxel field of a space carving, the carve() pass of one camera,   *)
(* the extraction of the visual hull and its export.                       *)
(*                                                                         *)
(* A float is modelled as a record [m, e] standing for m * 2^e, with       *)
(* |m| < 2^24 and m odd (or m = 0, e = 0), and every operation rounds its  *)
(* exact result to the nearest such value, ties to even, as IEEE-754       *)
(* binary32 does.  The exponent range is not modelled: no value of the     *)
(* model comes near overflow or the subnormals.                            *)
(***************************************************************************)
EXTENDS Integers, Sequences, FiniteSets

VARIABLES
    pc,            \* "constructing", "ready" or "aborted" (assert failed)
    bbox,          \* the constructor's argument bbox
    voxel_dim_,    \* VoxelCarving::voxel_dim_
    vox_array_,    \* VoxelCarving::vox_array_, indexed 0 .. voxel_size_ - 1
    params_,       \* VoxelCarving::params_
    visual_hull_,  \* VoxelCarving::visual_hull_ (triangles and normals)
    export_obj,    \* whether saveASOBJ("export.obj", ...) has been called
    carved,        \* history: how often carve() ran for each camera
    sampled,       \* history: the <<camera, voxel index>> pairs carve() sampled the images for
    returned       \* history: <<the PolyData the last createVisualHull() returned>>

vars == <<pc, bbox, voxel_dim_, vox_array_, params_, visual_hull_, export_obj,
          carved, sampled, returned>>

----------------------------------------------------------------------------
(* binary32 arithmetic *)

\* The width of a binary32 significand.
MantBits == 24

Abs(n) == IF n < 0 THEN -n ELSE n

\* The number of bits, and of trailing zero bits, of the bytes 1 .. 255.
ByteBitLen == [n \in 1 .. 255 |-> CHOOSE l \in 1 .. 8 : 2 ^ (l - 1) <= n /\ n < 2 ^ l]

ByteTrailingZeros ==
    [n \in 1 .. 255 |-> CHOOSE t \in 0 .. 7 : n % (2 ^ t) = 0 /\ n % (2 ^ (t + 1)) # 0]

RECURSIVE BitLen(_)
\* The number of bits of n >= 0, a byte at a time.
BitLen(n) ==
    IF n = 0 THEN 0
    ELSE IF n >= 256 THEN 8 + BitLen(n \div 256)
    ELSE ByteBitLen[n]

RECURSIVE TrailingZeros(_)
\* The number of trailing zero bits of n > 0, a byte at a time.
TrailingZeros(n) ==
    IF n % 256 = 0 THEN 8 + TrailingZeros(n \div 256)
    ELSE ByteTrailingZeros[n % 256]

RECURSIVE Canon(_, _)
\* The record of m * 2^e, m made odd.
Canon(m, e) ==
    IF m = 0 THEN [m |-> 0, e |-> 0]
    ELSE IF m % 2 = 0
         THEN Canon(m \div (2 ^ TrailingZeros(Abs(m))), e + TrailingZeros(Abs(m)))
         ELSE [m |-> m, e |-> e]

\* (mag + a fraction that is non-zero iff sticky) * 2^e, mag >= 0, rounded to
\* MantBits bits, ties to even; sgn is the sign of the result.
RoundFloat(sgn, mag, sticky, e) ==
    LET n == BitLen(mag) IN
    IF n <= MantBits THEN Canon(sgn * mag, e)
    ELSE LET s    == n - MantBits
             q    == mag \div (2 ^ s)
             r    == mag % (2 ^ s)
             half == 2 ^ (s - 1)
             up   == \/ r > half
                     \/ r = half /\ sticky
                     \/ r = half /\ ~sticky /\ q % 2 = 1
         IN Canon(sgn * (IF up THEN q + 1 ELSE q), e + s)

Sgn(n) == IF n < 0 THEN -1 ELSE 1

FromInt(n) == Canon(n, 0)

FNeg(a) == [m |-> -a.m, e |-> a.e]

FAbs(a) == [m |-> Abs(a.m), e |-> a.e]

FAdd(a, b) ==
    LET e   == IF a.e < b.e THEN a.e ELSE b.e
        sum == a.m * (2 ^ (a.e - e)) + b.m * (2 ^ (b.e - e))
    IN RoundFloat(Sgn(sum), Abs(sum), FALSE, e)

FSub(a, b) == FAdd(a, FNeg(b))

FMul(a, b) ==
    LET p == a.m * b.m
    IN RoundFloat(Sgn(p), Abs(p), FALSE, a.e + b.e)

\* a / b for b # 0: the numerator is scaled to 30 bits so that the integer
\* quotient keeps more than MantBits bits; the remainder is the sticky bit.
FDiv(a, b) ==
    LET s == 30 - BitLen(Abs(a.m))
        n == Abs(a.m) * (2 ^ s)
        d == Abs(b.m)
    IN RoundFloat(Sgn(a.m) * Sgn(b.m), n \div d, n % d # 0, a.e - s - b.e)

\* a < b.  Magnitudes are ordered by the position of the leading bit, then by
\* the significands aligned to MantBits bits.
MagLess(a, b) ==
    LET la == BitLen(Abs(a.m))
        lb == BitLen(Abs(b.m))
    IN IF la + a.e # lb + b.e THEN la + a.e < lb + b.e
       ELSE Abs(a.m) * (2 ^ (MantBits - la)) < Abs(b.m) * (2 ^ (MantBits - lb))

FLess(a, b) ==
    IF a.m = 0 \/ b.m = 0 \/ Sgn(a.m) # Sgn(b.m)
    THEN (IF a.m = 0 THEN 0 ELSE Sgn(a.m)) < (IF b.m = 0 THEN 0 ELSE Sgn(b.m))
    ELSE IF a.m > 0 THEN MagLess(a, b) ELSE MagLess(b, a)

FLeq(a, b) == ~FLess(b, a)

\* The largest integer <= a, for |a| < 2^30.
FFloor(a) ==
    IF a.e >= 0 THEN a.m * (2 ^ a.e)
    ELSE LET d == 2 ^ (-a.e)
         IN IF a.m >= 0 THEN a.m \div d ELSE -((-a.m + d - 1) \div d)

\* std::numeric_limits<float>::max() = (2^24 - 1) * 2^104
FLT_MAX == [m |-> 16777215, e |-> 104]

\* The literals of the source.
F_0_06 == [m |-> 16106127, e |-> -28]   \* 0.06f
F_0_20 == [m |-> 13421773, e |-> -26]   \* 0.20f
F_1 == FromInt(1)
F_2 == FromInt(2)
F_0 == FromInt(0)
F_m1 == FromInt(-1)                     \* -1.0f

----------------------------------------------------------------------------
(* Bounds and inputs *)

\* carve() is called at most MaxCarves times on one object.
MaxCarves == 3

\* The isosurface extractor returns at most MaxTris triangles.
MaxTris == 2

\* voxel_dim ranges over 1 .. MaxDim.
MaxDim == 2

\* voxel_dim ranges over 1 .. MaxDimP where only the constructor runs.
MaxDimP == 4

BBox(x0, x1, y0, y1, z0, z1) ==
    [xmin |-> FromInt(x0), xmax |-> FromInt(x1), ymin |-> FromInt(y0),
     ymax |-> FromInt(y1), zmin |-> FromInt(z0), zmax |-> FromInt(z1)]

\* The bounding boxes objects are carved with.
BBoxes == { BBox(0, 2, 0, 2, 0, 2), BBox(-1, 1, 0, 1, 3, 5), BBox(0, 3, -2, 0, -1, 0) }

\* The bounding boxes the constructor alone is run on.
BBoxesP ==
    { BBox(x0, x1, y0, y1, z0, z1) :
        x0 \in {0, -3}, x1 \in {10, 1}, y0 \in {0}, y1 \in {10, 5},
        z0 \in {0, 4, -7}, z1 \in {10, 4} }

Vec(x, y, z) == [x |-> x, y |-> y, z |-> z]

VecI(x, y, z) == Vec(FromInt(x), FromInt(y), FromInt(z))

Tri(a, b, c) == [v1 |-> a, v2 |-> b, v3 |-> c]

\* The triangles the isosurface extractor builds its lists from, in a cyclic
\* order; the second has the vertex (1/2, 3/2, 0).
Triangles ==
    << Tri(VecI(0, 0, 0), VecI(1, 0, 0), VecI(0, 1, 0)),
       Tri(VecI(1, 2, 3), Vec(Canon(1, -1), Canon(3, -1), F_0), VecI(4, 1, -2)) >>

\* A camera: the image plane it projects onto ("xy", "xz" or "zy"), the
\* pixel its world origin falls on, and its mask (rows of pixels, 0 is
\* background).
Cam(id, plane, ox, oy, Mask) ==
    [id |-> id, plane |-> plane, ox |-> ox, oy |-> oy, Mask |-> Mask]

Cameras ==
    { Cam(1, "xy", 0, 0, << <<255, 0>>, <<255, 255>> >>),
      Cam(2, "xz", 1, 0, << <<0, 255, 255>>, <<0, 0, 255>> >>),
      Cam(3, "zy", 0, 1, << <<255, 255>>, <<255, 255>>, <<0, 255>> >>) }

CamIds == { c.id : c \in Cameras }

CamOf(id) == CHOOSE c \in Cameras : c.id = id

----------------------------------------------------------------------------
(* Collaborators: the camera, the distance map, the isosurface extractor *)

\* cv::Mat::size(): the image's width (cols) and height (rows).
Size(Mat) == [width |-> Len(Mat[1]), height |-> Len(Mat)]

\* cv::Mat::at(coord): row coord.y, column coord.x, both counted from 0.
At(Mat, coord) == Mat[coord.y + 1][coord.x + 1]

\* inside(coord, img_size): the coordinate is a pixel of the image.
inside(coord, img_size) ==
    /\ 0 <= coord.x /\ coord.x < img_size.width
    /\ 0 <= coord.y /\ coord.y < img_size.height

\* project(cam, v): an orthographic camera; the pixel of a world point is
\* the floor of its two in-plane coordinates, moved by the camera's origin.
project(cam, v) ==
    LET a == IF cam.plane = "zy" THEN v.zpos ELSE v.xpos
        b == IF cam.plane = "xz" THEN v.zpos ELSE v.ypos
    IN [x |-> FFloor(a) + cam.ox, y |-> FFloor(b) + cam.oy]

Min(S) == CHOOSE n \in S : \A o \in S : n <= o

\* Segmentation::createDistMap(Mask): for every pixel the city-block
\* distance to the nearest pixel of the other class (foreground or
\* background), the image's width plus height where there is none.
createDistMap(Mask) ==
    LET sz == Size(Mask)
        fg(x, y) == Mask[y][x] # 0
        D(x, y) ==
            Min({ sz.width + sz.height } \cup
                { Abs(x - x2) + Abs(y - y2) :
                    <<x2, y2>> \in { q \in (1 .. sz.width) \X (1 .. sz.height) :
                                       fg(q[1], q[2]) # fg(x, y) } })
    IN [y \in 1 .. sz.height |-> [x \in 1 .. sz.width |-> FromInt(D(x, y))]]

\* The lists of 1 .. n triangles that follow one another in the cyclic order
\* of Triangles.
TriangleRuns(n) ==
    { [t \in 1 .. len |-> Triangles[((first + t - 2) % Len(Triangles)) + 1]] :
        len \in 1 .. n, first \in 1 .. Len(Triangles) }

\* mc::MarchingCubes::execute / getTriangles with isovalue 0: no triangle
\* where no cube of the grid has corners on both sides of the isovalue,
\* some triangles where one has.
MarchingCubes(field, dim) ==
    IF /\ dim >= 2
       /\ \E idx \in DOMAIN field : FLess(field[idx], F_0)
       /\ \E idx \in DOMAIN field : ~FLess(field[idx], F_0)
    THEN TriangleRuns(MaxTris)
    ELSE { <<>> }

----------------------------------------------------------------------------
(* VoxelCarving *)

\* voxel_slice_(voxel_dim * voxel_dim)
voxel_slice_ == voxel_dim_ * voxel_dim_

\* voxel_size_(voxel_dim * voxel_dim * voxel_dim)
voxel_size_ == voxel_dim_ * voxel_dim_ * voxel_dim_

\* calcStartParameter with the depth axis started at the box's zmin.
calcStartParameter_zmin(b, voxel_dim) ==
    LET MARGIN_X  == F_0_06
        MARGIN_Y  == F_0_20
        bb_width  == FMul(FAbs(FSub(b.xmax, b.xmin)),
                          FAdd(F_1, FMul(F_2, MARGIN_X)))
        bb_height == FMul(FAbs(FSub(b.ymax, b.ymin)),
                          FAdd(F_1, FMul(F_2, MARGIN_Y)))
        bb_depth  == FAbs(FSub(b.zmax, b.zmin))
        offset_x  == FDiv(FSub(bb_width, FAbs(FSub(b.xmax, b.xmin))), F_2)
        offset_y  == FDiv(FSub(bb_height, FAbs(FSub(b.ymax, b.ymin))), F_2)
    IN [start_x      |-> FSub(b.xmin, offset_x),
        start_y      |-> FSub(b.ymin, offset_y),
        start_z      |-> b.zmin,
        voxel_width  |-> FDiv(bb_width, FromInt(voxel_dim)),
        voxel_height |-> FDiv(bb_height, FromInt(voxel_dim)),
        voxel_depth  |-> FDiv(bb_depth, FromInt(voxel_dim))]

calcStartParameter(b, voxel_dim) ==
    LET MARGIN_X  == F_0_06
        MARGIN_Y  == F_0_20
        bb_width  == FMul(FAbs(FSub(b.xmax, b.xmin)),
                          FAdd(F_1, FMul(F_2, MARGIN_X)))
        bb_height == FMul(FAbs(FSub(b.ymax, b.ymin)),
                          FAdd(F_1, FMul(F_2, MARGIN_Y)))
        bb_depth  == FAbs(FSub(b.zmax, b.zmin))
        offset_x  == FDiv(FSub(bb_width, FAbs(FSub(b.xmax, b.xmin))), F_2)
        offset_y  == FDiv(FSub(bb_height, FAbs(FSub(b.ymax, b.ymin))), F_2)
    IN [start_x      |-> FSub(b.xmin, offset_x),
        start_y      |-> FSub(b.ymin, offset_y),
        start_z      |-> F_0,
        voxel_width  |-> FDiv(bb_width, FromInt(voxel_dim)),
        voxel_height |-> FDiv(bb_height, FromInt(voxel_dim)),
        voxel_depth  |-> FDiv(bb_depth, FromInt(voxel_dim))]

calcVoxelPosInCamViewFrustum(i, j, k) ==
    [xpos  |-> FAdd(params_.start_x, FMul(FromInt(k), params_.voxel_width)),
     ypos  |-> FAdd(params_.start_y, FMul(FromInt(j), params_.voxel_height)),
     zpos  |-> FAdd(params_.start_z, FMul(FromInt(i), params_.voxel_depth)),
     value |-> F_1]

\* calcSurfaceNormal with the two products of n.y exchanged.
calcSurfaceNormal_swapped(v1, v2, v3) ==
    [x |-> FSub(FMul(FSub(v2.y, v1.y), FSub(v3.z, v1.z)),
                FMul(FSub(v3.y, v1.y), FSub(v2.z, v1.z))),
     y |-> FSub(FMul(FSub(v2.x, v1.x), FSub(v3.z, v1.z)),
                FMul(FSub(v2.z, v1.z), FSub(v3.x, v1.x))),
     z |-> FSub(FMul(FSub(v2.x, v1.x), FSub(v3.y, v1.y)),
                FMul(FSub(v3.x, v1.x), FSub(v2.y, v1.y)))]

calcSurfaceNormal(v1, v2, v3) ==
    [x |-> FSub(FMul(FSub(v2.y, v1.y), FSub(v3.z, v1.z)),
                FMul(FSub(v3.y, v1.y), FSub(v2.z, v1.z))),
     y |-> FSub(FMul(FSub(v2.z, v1.z), FSub(v3.x, v1.x)),
                FMul(FSub(v2.x, v1.x), FSub(v3.z, v1.z))),
     z |-> FSub(FMul(FSub(v2.x, v1.x), FSub(v3.y, v1.y)),
                FMul(FSub(v3.x, v1.x), FSub(v2.y, v1.y)))]

\* One emplace_back for each triangle of the list.
calcSurfaceNormals(triangles) ==
    [t \in 1 .. Len(triangles) |->
        calcSurfaceNormal(triangles[t].v1, triangles[t].v2, triangles[t].v3)]

\* voxelDist with dist starting at 0.0f instead of -1.0f.
voxelDist_default0(cam, Mask, DistImage, img_size, i, j, k) ==
    LET v     == calcVoxelPosInCamViewFrustum(i, j, k)
        coord == project(cam, v)
    IN IF inside(coord, img_size)
       THEN [dist |-> IF At(Mask, coord) = 0
                      THEN FMul(At(DistImage, coord), F_m1)
                      ELSE At(DistImage, coord),
             read |-> TRUE]
       ELSE [dist |-> F_0, read |-> FALSE]

\* The body of carve()'s loops for the voxel (i, j, k): the camera's signed
\* distance for it, and whether the images were sampled.
voxelDist(cam, Mask, DistImage, img_size, i, j, k) ==
    LET v     == calcVoxelPosInCamViewFrustum(i, j, k)
        coord == project(cam, v)
    IN IF inside(coord, img_size)
       THEN [dist |-> IF At(Mask, coord) = 0
                      THEN FMul(At(DistImage, coord), F_m1)
                      ELSE At(DistImage, coord),
             read |-> TRUE]
       ELSE [dist |-> F_m1, read |-> FALSE]

\* voxelIndex with the slice stride taken for the row stride.
voxelIndex_rowstride(i, j, k) == k + j * voxel_dim_ + i * voxel_dim_

\* const auto idx = k + j * voxel_dim_ + i * voxel_slice_
voxelIndex(i, j, k) == k + j * voxel_dim_ + i * voxel_slice_

\* carveVoxel without the comparison: the new distance is always stored.
carveVoxel_overwrite(dist, stored) == dist

\* if (dist < vox_array_[idx]) vox_array_[idx] = dist
carveVoxel(dist, stored) == IF FLess(dist, stored) THEN dist ELSE stored

\* The iterations of carve()'s three nested loops, as <<i, j, k>>.
LoopIterations ==
    (0 .. voxel_dim_ - 1) \X (0 .. voxel_dim_ - 1) \X (0 .. voxel_dim_ - 1)

\* it comes before other in the loops' order: i outermost, k innermost.
LoopBefore(it, other) ==
    \/ it[1] < other[1]
    \/ it[1] = other[1] /\ it[2] < other[2]
    \/ it[1] = other[1] /\ it[2] = other[2] /\ it[3] < other[3]

RECURSIVE carveCell(_, _, _, _)
\* The value the iterations its, taken in the loops' order, leave in a cell
\* that held stored.
carveCell(stored, its, cam, DistImage) ==
    IF its = {} THEN stored
    ELSE LET it == CHOOSE it \in its : \A o \in its \ {it} : LoopBefore(it, o)
             d  == voxelDist(cam, cam.Mask, DistImage, Size(cam.Mask),
                             it[1], it[2], it[3])
         IN carveCell(carveVoxel(d.dist, stored), its \ {it}, cam, DistImage)

\* The field carve(cam) leaves, started on field, and the voxels it sampled
\* the images for: the cell idx is written by the iterations whose index
\* voxelIndex(i, j, k) is idx.
carveField(field, cam) ==
    LET DistImage == createDistMap(cam.Mask)
        writers(idx) == { it \in LoopIterations : voxelIndex(it[1], it[2], it[3]) = idx }
        coord(it) == project(cam, calcVoxelPosInCamViewFrustum(it[1], it[2], it[3]))
    IN [field |-> [idx \in DOMAIN field |->
                     carveCell(field[idx], writers(idx), cam, DistImage)],
        reads |-> { voxelIndex(it[1], it[2], it[3]) :
                      it \in { q \in LoopIterations : inside(coord(q), Size(cam.Mask)) } }]

NoHull == [triangles |-> <<>>, normals |-> <<>>]

TotalCarved == LET RECURSIVE Sum(_)
                   Sum(S) == IF S = {} THEN 0
                             ELSE LET x == CHOOSE x \in S : TRUE
                                  IN carved[x] + Sum(S \ {x})
               IN Sum(CamIds)

\* The constructor without its std::fill_n: make_unique<float[]> leaves 0.0f.
Constructed_nofill(b, voxel_dim) ==
    /\ pc = "ready"
    /\ bbox = b
    /\ voxel_dim_ = voxel_dim
    /\ vox_array_ = [idx \in 0 .. (voxel_dim * voxel_dim * voxel_dim - 1) |-> F_0]
    /\ params_ = calcStartParameter(b, voxel_dim)
    /\ visual_hull_ = NoHull
    /\ export_obj = FALSE
    /\ carved = [id \in CamIds |-> 0]
    /\ sampled = {}
    /\ returned = <<>>

\* VoxelCarving::VoxelCarving(bbox, voxel_dim): the object's fields.
Constructed(b, voxel_dim) ==
    /\ pc = "ready"
    /\ bbox = b
    /\ voxel_dim_ = voxel_dim
    /\ vox_array_ = [idx \in 0 .. (voxel_dim * voxel_dim * voxel_dim - 1) |-> FLT_MAX]
    /\ params_ = calcStartParameter(b, voxel_dim)
    /\ visual_hull_ = NoHull
    /\ export_obj = FALSE
    /\ carved = [id \in CamIds |-> 0]
    /\ sampled = {}
    /\ returned = <<>>

Init == \E b \in BBoxes, voxel_dim \in 1 .. MaxDim : Constructed(b, voxel_dim)

\* carve() that also drops the stored mesh.
carve_drops_hull(cam) ==
    /\ pc = "ready"
    /\ TotalCarved < MaxCarves
    /\ LET done == carveField(vox_array_, cam)
       IN /\ vox_array_' = done.field
          /\ sampled' = sampled \cup { <<cam.id, idx>> : idx \in done.reads }
    /\ carved' = [carved EXCEPT ![cam.id] = @ + 1]
    /\ visual_hull_' = NoHull
    /\ UNCHANGED <<pc, bbox, voxel_dim_, params_, export_obj, returned>>

carve(cam) ==
    /\ pc = "ready"
    /\ TotalCarved < MaxCarves
    /\ LET done == carveField(vox_array_, cam)
       IN /\ vox_array_' = done.field
          /\ sampled' = sampled \cup { <<cam.id, idx>> : idx \in done.reads }
    /\ carved' = [carved EXCEPT ![cam.id] = @ + 1]
    /\ UNCHANGED <<pc, bbox, voxel_dim_, params_, visual_hull_, export_obj, returned>>

createVisualHull ==
    /\ pc = "ready"
    /\ \E triangles \in MarchingCubes(vox_array_, voxel_dim_) :
          /\ visual_hull_' = [triangles |-> triangles,
                              normals   |-> calcSurfaceNormals(triangles)]
          /\ returned' = <<visual_hull_'>>
    /\ UNCHANGED <<pc, bbox, voxel_dim_, vox_array_, params_, export_obj, carved, sampled>>

\* exportToDisk() without its assertion.
exportToDisk_unchecked ==
    /\ pc = "ready"
    /\ export_obj' = TRUE
    /\ UNCHANGED <<pc, bbox, voxel_dim_, vox_array_, params_, visual_hull_, carved,
                   sampled, returned>>

exportToDisk ==
    /\ pc = "ready"
    /\ IF Len(visual_hull_.triangles) > 0
       THEN /\ export_obj' = TRUE
            /\ pc' = pc
       ELSE /\ pc' = "aborted"
            /\ export_obj' = export_obj
    /\ UNCHANGED <<bbox, voxel_dim_, vox_array_, params_, visual_hull_, carved,
                   sampled, returned>>

Next ==
    \/ \E cam \in Cameras : carve(cam)
    \/ createVisualHull
    \/ exportToDisk

Spec == Init /\ [][Next]_vars

----------------------------------------------------------------------------
(* The constructor alone, on more bounding boxes and dimensions *)

InitP ==
    /\ pc = "constructing"
    /\ bbox \in BBoxesP
    /\ voxel_dim_ \in 1 .. MaxDimP
    /\ vox_array_ = <<>>
    /\ params_ = [start_x |-> F_0, start_y |-> F_0, start_z |-> F_0,
                  voxel_width |-> F_0, voxel_height |-> F_0, voxel_depth |-> F_0]
    /\ visual_hull_ = NoHull
    /\ export_obj = FALSE
    /\ carved = [id \in CamIds |-> 0]
    /\ sampled = {}
    /\ returned = <<>>

Construct ==
    /\ pc = "constructing"
    /\ pc' = "ready"
    /\ vox_array_' = [idx \in 0 .. (voxel_size_ - 1) |-> FLT_MAX]
    /\ params_' = calcStartParameter(bbox, voxel_dim_)
    /\ UNCHANGED <<bbox, voxel_dim_, visual_hull_, export_obj, carved, sampled, returned>>

NextP == Construct

SpecP == InitP /\ [][NextP]_vars

----------------------------------------------------------------------------
(* What the claims speak about *)

\* The cameras carve() has run for.
Processed == { c \in Cameras : carved[c.id] > 0 }

\* The loop indices of the voxel stored at idx, by the layout
\* idx = k + j * voxel_dim + i * voxel_dim^2.
LoopI(idx) == idx \div (voxel_dim_ * voxel_dim_)
LoopJ(idx) == (idx \div voxel_dim_) % voxel_dim_
LoopK(idx) == idx % voxel_dim_

\* The pixel the voxel stored at idx projects to in cam's image.
Pixel(cam, idx) ==
    project(cam, calcVoxelPosInCamViewFrustum(LoopI(idx), LoopJ(idx), LoopK(idx)))

Outside(cam, idx) == ~inside(Pixel(cam, idx), Size(cam.Mask))

\* What carve(cam) computes for the voxel stored at idx.
CamDist(cam, idx) ==
    voxelDist(cam, cam.Mask, createDistMap(cam.Mask), Size(cam.Mask),
              LoopI(idx), LoopJ(idx), LoopK(idx)).dist

\* The signed contribution of a camera as the specification words it: +d on
\* a foreground pixel, -d on a background pixel, -1 off the image.
SignedContribution(cam, idx) ==
    LET coord == Pixel(cam, idx)
    IN IF ~inside(coord, Size(cam.Mask)) THEN F_m1
       ELSE IF At(cam.Mask, coord) # 0
            THEN At(createDistMap(cam.Mask), coord)
            ELSE FNeg(At(createDistMap(cam.Mask), coord))

\* The least float of a non-empty finite set.
FMin(S) == CHOOSE a \in S : \A b \in S : FLeq(a, b)

Fresh == [idx \in DOMAIN vox_array_ |-> FLT_MAX]

RECURSIVE ReplayFrom(_, _, _)
\* The field after carving, from field on, n times with each camera whose id
\* is at least id, in the order of the ids.
ReplayFrom(field, id, n) ==
    IF id \notin CamIds THEN field
    ELSE IF n = 0 THEN ReplayFrom(field, id + 1, IF id + 1 \in CamIds THEN carved[id + 1] ELSE 0)
    ELSE ReplayFrom(carveField(field, CamOf(id)).field, id, n - 1)

\* The observations carved so far, applied to a second, fresh object in the
\* order of the camera ids.
SortedReplay == ReplayFrom(Fresh, 1, carved[1])

Box10 == BBox(0, 10, 0, 10, 0, 10)

\* The binary32 values nearest to -0.3, -0.6 and 2.8.
F_m0_3 == [m |-> -5033165, e |-> -24]
F_m0_6 == [m |-> -5033165, e |-> -23]
F_2_8 == [m |-> 11744051, e |-> -22]

\* 2^-20, less than a millionth.
Millionth == Canon(1, -20)

\* a and b differ by at most tol.
Within(a, b, tol) == FLeq(FAbs(FSub(a, b)), tol)

UnitTriangle == Tri(VecI(0, 0, 0), VecI(1, 0, 0), VecI(0, 1, 0))

VSub(a, b) == Vec(FSub(a.x, b.x), FSub(a.y, b.y), FSub(a.z, b.z))

\* The cross product a x b.
Cross(a, b) ==
    Vec(FSub(FMul(a.y, b.z), FMul(a.z, b.y)),
        FSub(FMul(a.z, b.x), FMul(a.x, b.z)),
        FSub(FMul(a.x, b.y), FMul(a.y, b.x)))

----------------------------------------------------------------------------
(* The claims *)

\* C1: no step raises a stored voxel value: for every voxel index the value
\* after a carve() call is less than or equal to the value before it.
Monotone ==
    [][\A idx \in DOMAIN vox_array_ : FLeq(vox_array_'[idx], vox_array_[idx])]_vars

\* C1 witness: two carve() calls have run and a voxel holds less than a
\* processed camera contributed for it, so a carve() met a lower stored value.
MonotoneWitness ==
    /\ TotalCarved >= 2
    /\ \E c \in Processed : \E idx \in DOMAIN vox_array_ :
          FLess(vox_array_[idx], CamDist(c, idx))

\* C2: the field an object holds after its carve() calls, in whatever order
\* they ran, equals the field of a second object of the same bounding box and
\* voxel_dim that is given the same observations in the order of their ids.
OrderIndependent == pc = "ready" => vox_array_ = SortedReplay

\* C2 witness: two different cameras have been carved, and they disagree on
\* a voxel they both lowered below the initial value.
OrderIndependentWitness ==
    \E c1, c2 \in Processed : \E idx \in DOMAIN vox_array_ :
        /\ c1.id # c2.id
        /\ CamDist(c1, idx) # CamDist(c2, idx)

\* C3 as stated: for the box 0..10 in x, y and z and voxel_dim 4, start_x is
\* -0.3 and voxel_width 2.8 (each to a thousandth), and start_z is 0.0 for
\* every box.
MarginAsStated ==
    pc = "ready" =>
        /\ params_.start_z = F_0
        /\ (bbox = Box10 /\ voxel_dim_ = 4) =>
              /\ Within(params_.start_x, F_m0_3, Canon(1, -10))
              /\ Within(params_.voxel_width, F_2_8, Canon(1, -10))

\* C3 amended: for the box 0..10 in x, y and z and voxel_dim 4, start_x is
\* -0.6 to a millionth (the 6% margin of a width of 10) and
\* voxel_width is the float 2.8; start_z is 0.0 for every box, whatever zmin.
MarginAmended ==
    pc = "ready" =>
        /\ params_.start_z = F_0
        /\ (bbox = Box10 /\ voxel_dim_ = 4) =>
              /\ Within(params_.start_x, F_m0_6, Millionth)
              /\ params_.voxel_width = F_2_8

\* C3 witness: the constructor has run on the box 0..10 with voxel_dim 4 and
\* left start_x = -1258291 * 2^-21 = -0.59999990.
MarginWitness ==
    /\ pc = "ready"
    /\ bbox = Box10
    /\ voxel_dim_ = 4
    /\ params_.start_x = [m |-> -1258291, e |-> -21]

\* C4: the stored mesh has three normals for each of its triangles.
NormalsThreePerTriangle ==
    Len(visual_hull_.normals) = 3 * Len(visual_hull_.triangles)

\* C5: exportToDisk() with a stored mesh of no triangle (so also before any
\* createVisualHull()) ends in the failed assertion and writes no file, and
\* a file is written only from a mesh of at least one triangle.
ExportPrecondition ==
    [][ /\ (returned = <<>> => Len(visual_hull_.triangles) = 0)
        /\ (exportToDisk /\ Len(visual_hull_.triangles) = 0) =>
              (pc' = "aborted" /\ export_obj' = export_obj)
        /\ (export_obj' # export_obj) => Len(visual_hull_.triangles) > 0 ]_vars

\* C5 witness: exportToDisk() was called before any createVisualHull(): the
\* assertion failed and there is no file.
ExportPreconditionWitness ==
    pc = "aborted" /\ returned = <<>> /\ ~export_obj

\* C6: for a processed camera and a voxel that projects outside its image,
\* the camera's contribution is -1.0, the images were not sampled for the
\* voxel, and the stored value is at most -1.0 from then on.
OutsideFallback ==
    \A c \in Processed : \A idx \in DOMAIN vox_array_ :
        Outside(c, idx) =>
            /\ CamDist(c, idx) = F_m1
            /\ <<c.id, idx>> \notin sampled
            /\ FLeq(vox_array_[idx], F_m1)

\* C6 witness: a voxel projected outside the image of a processed camera, a
\* later carve() sampled the images of another camera for it, and it holds
\* exactly -1.0.
OutsideFallbackWitness ==
    \E c1, c2 \in Processed : \E idx \in DOMAIN vox_array_ :
        /\ Outside(c1, idx)
        /\ <<c2.id, idx>> \in sampled
        /\ vox_array_[idx] = F_m1

\* C7: the field has voxel_dim^3 cells in every state, and before the first
\* carve() every cell holds the largest float.
InitialState ==
    pc = "ready" =>
        /\ DOMAIN vox_array_ = 0 .. (voxel_dim_ * voxel_dim_ * voxel_dim_ - 1)
        /\ Cardinality(DOMAIN vox_array_) = voxel_dim_ ^ 3
        /\ TotalCarved = 0 => \A idx \in DOMAIN vox_array_ : vox_array_[idx] = FLT_MAX

\* C7 witness: carve(), createVisualHull() and exportToDisk() have all run on
\* an object of more than one cell.
InitialStateWitness ==
    /\ TotalCarved > 0 /\ returned # <<>> /\ export_obj
    /\ Cardinality(DOMAIN vox_array_) = 8

\* C8: every stored normal is the cross product (v2 - v1) x (v3 - v1) of its
\* triangle, and the normal of (0,0,0), (1,0,0), (0,1,0) is (0,0,1).
NormalIsCrossProduct ==
    \A t \in 1 .. Len(visual_hull_.triangles) :
        LET tri == visual_hull_.triangles[t] IN
        /\ t \in DOMAIN visual_hull_.normals
        /\ visual_hull_.normals[t] = Cross(VSub(tri.v2, tri.v1), VSub(tri.v3, tri.v1))
        /\ tri = UnitTriangle => visual_hull_.normals[t] = VecI(0, 0, 1)

\* C8 witness: the stored mesh holds the triangle (0,0,0), (1,0,0), (0,1,0)
\* and another one.
NormalIsCrossProductWitness ==
    /\ \E t \in 1 .. Len(visual_hull_.triangles) : visual_hull_.triangles[t] = UnitTriangle
    /\ \E t \in 1 .. Len(visual_hull_.triangles) : visual_hull_.triangles[t] # UnitTriangle

\* C9: every voxel holds the least of the largest float and the signed
\* contributions of the processed cameras, and is positive only if every
\* processed camera contributed a positive value.
SignedRunningMin ==
    pc = "ready" =>
        \A idx \in DOMAIN vox_array_ :
            /\ vox_array_[idx] =
                  FMin({FLT_MAX} \cup { SignedContribution(c, idx) : c \in Processed })
            /\ FLess(F_0, vox_array_[idx]) =>
                  \A c \in Processed : FLess(F_0, SignedContribution(c, idx))

\* C9 witness: after two cameras, one voxel is still positive, one holds the
\* negated distance of a background pixel and one the -1.0 of a camera that
\* does not see it.
SignedRunningMinWitness ==
    /\ Cardinality(Processed) >= 2
    /\ \E idx \in DOMAIN vox_array_ :
          FLess(F_0, vox_array_[idx]) /\ vox_array_[idx] # FLT_MAX
    /\ \E idx \in DOMAIN vox_array_ : \E c \in Processed :
          /\ ~Outside(c, idx)
          /\ At(c.Mask, Pixel(c, idx)) = 0
          /\ vox_array_[idx] = FNeg(At(createDistMap(c.Mask), Pixel(c, idx)))
          /\ vox_array_[idx] # F_m1
    /\ \E idx \in DOMAIN vox_array_ : \E c \in Processed :
          Outside(c, idx) /\ vox_array_[idx] = F_m1

\* C10: a carve() call leaves voxel_dim, the StartParameters and the stored
\* mesh as they were, so the stored mesh is the one the last
\* createVisualHull() returned, and exportToDisk() writes it if it has a
\* triangle.
FrameOfCarve ==
    /\ [](returned # <<>> => visual_hull_ = returned[1])
    /\ [][ /\ (\E cam \in Cameras : carve(cam)) =>
                UNCHANGED <<voxel_dim_, params_, visual_hull_, returned>>
           /\ (exportToDisk /\ Len(visual_hull_.triangles) > 0) =>
                (export_obj' /\ pc' = "ready") ]_vars

\* C10 witness: a carve() ran after the last createVisualHull() (the mesh is
\* not one the extractor returns for the present field) and exportToDisk()
\* wrote the mesh.
FrameOfCarveWitness ==
    /\ returned # <<>>
    /\ visual_hull_.triangles \notin MarchingCubes(vox_array_, voxel_dim_)
    /\ Len(visual_hull_.triangles) > 0
    /\ export_obj
====
